---- MODULE Spec2Model ----
(***************************************************************************)
(* regex-replacer (src/main.rs): the corpus cleaner.  main creates the     *)
(* output directory, loads the pattern file, spawns one thread per         *)
(* language and waits on the progress bars.  Each thread opens its input,  *)
(* creates its output, and for every line either drops it (removal set     *)
(* matches) or folds the substitution rules over it and writes it through  *)
(* a BufWriter.                                                            *)
(*                                                                         *)
(* A text line is a sequence of one-character strings.  A file is the      *)
(* sequence of lines that BufRead::lines() yields from it.  A regular      *)
(* expression is given as a sequence of tokens: an optional leading "^",   *)
(* literal characters and "." (the subset of the regex syntax the model    *)
(* draws its pattern files from); "(" stands for an unclosed group, which  *)
(* the regex crate refuses to compile.  A replacement template is a        *)
(* sequence of literal characters and "${0}" (the whole match).            *)
(***************************************************************************)
EXTENDS Integers, Sequences, FiniteSets, TLC

(***************************************************************************)
(* Bounds of the model.                                                    *)
(***************************************************************************)
\* longest line the exhaustive single-file specification draws
MaxLineLen == 2
\* most lines of a file in the exhaustive single-file specification
MaxLines == 2
\* most languages (threads) of a run in the concurrent specification
MaxLangs == 2
\* lines the BufWriter holds before it flushes (8 KiB in std, scaled down)
BufCap == 1

Alphabet == {"a", "b"}

\* a byte sequence that is not valid UTF-8
BadByte == "?"

RECURSIVE SeqsUpTo(_, _)
SeqsUpTo(S, n) ==
    IF n = 0 THEN {<<>>}
    ELSE LET shorter == SeqsUpTo(S, n - 1)
         IN  shorter \cup {Append(s, x) : s \in {t \in shorter : Len(t) = n - 1}, x \in S}

Range(s) == {s[i] : i \in 1..Len(s)}

(***************************************************************************)
(* The regex crate, on the token subset.                                   *)
(***************************************************************************)

\* Regex::new / RegexSet::new on one raw pattern: Err on an unclosed group,
\* otherwise the compiled program: anchored at the line start or not, and
\* the tokens to match one character each.
CompileRegex(raw) ==
    IF "(" \in Range(raw)
    THEN [ok |-> FALSE, anchored |-> FALSE, body |-> <<>>]
    ELSE IF raw # <<>> /\ Head(raw) = "^"
         THEN [ok |-> TRUE, anchored |-> TRUE, body |-> Tail(raw)]
         ELSE [ok |-> TRUE, anchored |-> FALSE, body |-> raw]

\* one token against one character
TokMatches(tok, ch) == tok = "." \/ tok = ch

\* does re match the text starting at (1-based) position i
MatchAt(re, text, i) ==
    /\ i \in 1..(Len(text) + 1)
    /\ i + Len(re.body) - 1 <= Len(text)
    /\ (re.anchored => i = 1)
    /\ \A k \in 1..Len(re.body) : TokMatches(re.body[k], text[i + k - 1])

\* the start positions >= from at which re matches
MatchStarts(re, text, from) ==
    {i \in from..(Len(text) + 1) : MatchAt(re, text, i)}

Min(S) == CHOOSE x \in S : \A y \in S : x <= y

\* Regex::is_match: an unanchored search
RegexIsMatch(re, text) == MatchStarts(re, text, 1) # {}

RegexSetIsMatch_All(set, text) ==
    \A k \in 1..Len(set) : RegexIsMatch(set[k], text)

\* RegexSet::is_match: true iff any regex of the set matches
RegexSetIsMatch(set, text) ==
    \E k \in 1..Len(set) : RegexIsMatch(set[k], text)

\* the replacement template expanded for one match (Replacer for &String)
RECURSIVE Expand(_, _)
Expand(template, matched) ==
    IF template = <<>> THEN <<>>
    ELSE (IF Head(template) = "${0}" THEN matched ELSE <<Head(template)>>)
         \o Expand(Tail(template), matched)

\* Regex::replace_all: every non-overlapping match, left to right
RECURSIVE RegexReplaceAllFrom(_, _, _, _)
RegexReplaceAllFrom(re, text, template, from) ==
    LET starts == MatchStarts(re, text, from)
        n == Len(re.body)
    IN  IF starts = {} THEN SubSeq(text, from, Len(text))
        ELSE LET i == Min(starts)
                 head == SubSeq(text, from, i - 1)
                          \o Expand(template, SubSeq(text, i, i + n - 1))
             IN  IF n > 0 THEN head \o RegexReplaceAllFrom(re, text, template, i + n)
                 ELSE IF i <= Len(text)
                      THEN head \o <<text[i]>>
                           \o RegexReplaceAllFrom(re, text, template, i + 1)
                      ELSE head

RegexReplaceAll(re, text, template) == RegexReplaceAllFrom(re, text, template, 1)

\* Regex::replace: the leftmost match only (replacen with limit 1)
RegexReplace(re, text, template) ==
    LET starts == MatchStarts(re, text, 1)
        n == Len(re.body)
    IN  IF starts = {} THEN text
        ELSE LET i == Min(starts)
             IN  SubSeq(text, 1, i - 1)
                 \o Expand(template, SubSeq(text, i, i + n - 1))
                 \o SubSeq(text, i + n, Len(text))

(***************************************************************************)
(* The pattern file and parse_patterns.                                    *)
(***************************************************************************)

\* what parse_patterns returns or does: Ok(Patterns), Err(String), or a
\* panic of the calling thread at one of its two unwrap()s
parse_patterns(file) ==
    LET rm == [k \in 1..Len(file.remove) |-> CompileRegex(file.remove[k])]
        rp == [k \in 1..Len(file.replace) |->
                 [regex |-> CompileRegex(file.replace[k].regex),
                  replacement |-> file.replace[k].replacement]]
        none == [remove |-> <<>>, replace |-> <<>>]
    IN  IF ~file.present THEN [outcome |-> "err"] @@ none
        ELSE IF ~file.wellformed THEN [outcome |-> "err"] @@ none
        ELSE IF \E k \in 1..Len(rm) : ~rm[k].ok THEN [outcome |-> "panic"] @@ none
        ELSE IF \E k \in 1..Len(rp) : ~rp[k].regex.ok THEN [outcome |-> "panic"] @@ none
        ELSE [outcome |-> "ok", remove |-> rm, replace |-> rp]

(***************************************************************************)
(* The body of the per-line loop.                                          *)
(***************************************************************************)

\* io::Lines yields Err(InvalidData) for a line that is not UTF-8
Decodable(raw) == BadByte \notin Range(raw)

RECURSIVE FoldReplace_Reversed(_, _)
FoldReplace_Reversed(rules, line) ==
    IF rules = <<>> THEN line
    ELSE RegexReplace(Head(rules).regex,
                      FoldReplace_Reversed(Tail(rules), line),
                      Head(rules).replacement)

\* replace.iter().fold(line, |line, rule| rule.regex.replace(&line, ..))
RECURSIVE FoldReplace(_, _)
FoldReplace(rules, line) ==
    IF rules = <<>> THEN line
    ELSE FoldReplace(Tail(rules),
                     RegexReplace(Head(rules).regex, line, Head(rules).replacement))

LineBody_SubstituteFirst(rmv, rpl, line) ==
    LET value == FoldReplace(rpl, line)
    IN  IF RegexSetIsMatch(rmv, value)
        THEN [kept |-> FALSE, folded |-> <<line>>, value |-> <<>>]
        ELSE [kept |-> TRUE, folded |-> <<line>>, value |-> value]

\* one decoded line through the loop body: dropped by `continue`, or the
\* folded line handed to writeln!; folded records the lines the fold ran on
LineBody(rmv, rpl, line) ==
    IF RegexSetIsMatch(rmv, line)
    THEN [kept |-> FALSE, folded |-> <<>>, value |-> <<>>]
    ELSE [kept |-> TRUE, folded |-> <<line>>, value |-> FoldReplace(rpl, line)]

BufWrite_Bypass(b, file, line) ==
    IF Len(b) + 1 > BufCap
    THEN [buf |-> b, file |-> Append(file, line)]
    ELSE [buf |-> Append(b, line), file |-> file]

\* BufWriter::write of one line: a full buffer is flushed to the file first;
\* file is what the handle has been given, then what it has been given after
BufWrite(b, file, line) ==
    IF Len(b) + 1 > BufCap
    THEN [buf |-> <<line>>, file |-> file \o b]
    ELSE [buf |-> Append(b, line), file |-> file]

\* the bytes of a file no write has reached (a hole reads as NULs)
Hole == <<"NUL">>

Max(a, b) == IF a >= b THEN a ELSE b

\* File::write through a handle at offset off (in lines): overwrites what is
\* there, extends the file, leaves a hole when off is past its end
WriteAt(content, off, data) ==
    IF data = << >> THEN content
    ELSE [i \in 1..Max(Len(content), off + Len(data)) |->
            IF i > off /\ i <= off + Len(data) THEN data[i - off]
            ELSE IF i <= Len(content) THEN content[i]
            ELSE Hole]

lines_remaining_NoSubtract(total, skipped) == total

\* let lines_remaining = lines_total - lines_skipped
lines_remaining(total, skipped) == total - skipped

\* lines_remaining as f32 / lines_total as f32 * 100.0: NaN for 0 / 0
Ratio(remaining, total) ==
    [nan |-> total = 0, num |-> remaining * 100, den |-> total]

(***************************************************************************)
(* The state of one run.                                                   *)
(***************************************************************************)
VARIABLES
    patternFile,    \* the pattern file at cli.patterns
    outDirState,    \* cli.output_dir: "exists", "absent" or "blocked"
    outDirInit,     \* cli.output_dir as it was when the run started
    inputDir,       \* cli.input_dir
    outputDir,      \* cli.output_dir
    languages,      \* cli.languages.split(',')
    fs,             \* the files, by path <<directory, language>>
    fsInit,         \* the files as they were when the run started
    mainPc,         \* where main is
    remove,         \* Arc<RegexSet>
    replace,        \* Arc<Vec<ReplacePattern>>
    handles,        \* number of threads spawned and pushed to handles
    pc,             \* where each thread is
    rd,             \* lines each thread's reader has yielded
    lines_total,    \* per thread
    lines_skipped,  \* per thread
    writer,         \* per thread: the BufWriter's buffered lines
    wpos,           \* per thread: lines written through its out_file
    outOpen,        \* per thread: File::create has returned Ok
    finished,       \* per thread: its progress bar is finished
    message,        \* per thread: what finish_with_message reported
    folded          \* per thread: the lines the substitution fold ran on

vars == <<patternFile, outDirState, outDirInit, inputDir, outputDir, languages,
          fs, fsInit, mainPc, remove, replace, handles, pc, rd, lines_total,
          lines_skipped, writer, wpos, outOpen, finished, message, folded>>

config == <<patternFile, inputDir, outputDir, languages, fsInit, outDirInit>>
counters == <<rd, lines_total, lines_skipped>>

\* the default of cli.languages
DefaultLanguages == <<"en", "de", "fr", "es", "it", "pt">>

\* the defaults of cli.input_dir and cli.output_dir
Dirs == {"raw", "prepro"}
\* the paths of the run's files
Paths == Dirs \X Range(languages)

Threads == 1..Len(languages)

\* input.join(format!("{}.{}", corpus, language))
InPath(t) == <<inputDir, languages[t]>>
\* output.join(format!("{}.{}", corpus, language))
OutPath(t) == <<outputDir, languages[t]>>

\* a file: absent, or present with its lines; locked: no permission
NoFile == [exists |-> FALSE, locked |-> FALSE, lines |-> <<>>]
FileOf(ls) == [exists |-> TRUE, locked |-> FALSE, lines |-> ls]
LockedFile(ls) == [exists |-> TRUE, locked |-> TRUE, lines |-> ls]

NoMessage == [sent |-> FALSE, lines_remaining |-> 0, lines_total |-> 0,
              ratio |-> Ratio(0, 0)]

\* a process whose main has returned or panicked has exited: no thread runs
ProcessAlive == mainPc \notin {"returned", "panicked"}

(***************************************************************************)
(* The runs the model draws: pattern files, input and output files.        *)
(***************************************************************************)

PatternFileOf(rm, rp) ==
    [present |-> TRUE, wellformed |-> TRUE, remove |-> rm, replace |-> rp]
Rule(rx, tpl) == [regex |-> rx, replacement |-> tpl]

\* remove: ^b        replace: a -> b
PF_Anchored == PatternFileOf(<< <<"^", "b">> >>, << Rule(<<"a">>, <<"b">>) >>)
\* remove: bb, ^.a   replace: a -> b, then b -> a
PF_TwoRules == PatternFileOf(<< <<"b", "b">>, <<"^", ".", "a">> >>,
                             << Rule(<<"a">>, <<"b">>), Rule(<<"b">>, <<"a">>) >>)
\* remove: nothing   replace: .b -> b${0}
PF_Capture == PatternFileOf(<< >>, << Rule(<<".", "b">>, <<"b", "${0}">>) >>)
\* remove: a, bb     replace: nothing
PF_NoRules == PatternFileOf(<< <<"a">>, <<"b", "b">> >>, << >>)
PF_Missing == [present |-> FALSE, wellformed |-> FALSE, remove |-> << >>,
               replace |-> << >>]
PF_Malformed == [present |-> TRUE, wellformed |-> FALSE, remove |-> << >>,
                 replace |-> << >>]
PF_BadRemove == PatternFileOf(<< <<"^", "b">>, <<"(", "a">> >>,
                              << Rule(<<"a">>, <<"b">>) >>)
PF_BadReplace == PatternFileOf(<< <<"^", "b">> >>, << Rule(<<"(">>, <<"b">>) >>)

GoodPatternFiles == {PF_Anchored, PF_TwoRules, PF_Capture, PF_NoRules}
BadPatternFiles == {PF_Missing, PF_Malformed, PF_BadRemove, PF_BadReplace}

\* every text line up to MaxLineLen, and one line that is not UTF-8
AllLines == SeqsUpTo(Alphabet, MaxLineLen) \cup {<<BadByte>>}
\* every file of up to MaxLines such lines
AllFiles == SeqsUpTo(AllLines, MaxLines)

\* the sample files of the concurrent specification
SampleKept == << <<"a", "a">>, <<"b">>, <<"a", "b">>, <<"a">>, <<"a", "a", "b">> >>
SampleBad == << <<"a", "a">>, <<BadByte>>, <<"a", "b">> >>
Stale == << <<"b", "b", "b">> >>

\* one language's files when the run starts
Job(i, o) == [inp |-> i, out |-> o]
SampleJobs ==
    {Job(NoFile, FileOf(Stale)), Job(LockedFile(SampleKept), NoFile),
     Job(FileOf(SampleKept), NoFile), Job(FileOf(SampleKept), FileOf(Stale)),
     Job(FileOf(SampleBad), NoFile), Job(FileOf(<<>>), FileOf(Stale)),
     Job(FileOf(SampleKept), LockedFile(Stale))}
AllJobs == {Job(FileOf(f), FileOf(Stale)) : f \in AllFiles}

\* the language lists: the first n of the default languages
LanguageLists == {SubSeq(DefaultLanguages, 1, n) : n \in 1..MaxLangs}

\* the state when main starts, for the given choice of runs; dirPairs are
\* the <<cli.input_dir, cli.output_dir>> to draw from
InitRun(patternFiles, languageLists, jobs, dirPairs) ==
    /\ patternFile \in patternFiles
    /\ \E dp \in dirPairs : inputDir = dp[1] /\ outputDir = dp[2]
    /\ languages \in languageLists
    /\ \E job \in [Range(languages) -> jobs] :
         fs = [p \in Paths |->
                 IF p[1] = inputDir THEN job[p[2]].inp
                 ELSE IF p[1] = outputDir THEN job[p[2]].out
                 ELSE NoFile]
    /\ fsInit = fs
    /\ outDirState \in (IF \E l \in Range(languages) : fs[<<outputDir, l>>].exists
                        THEN {"exists"}
                        ELSE {"exists", "absent", "blocked"})
    /\ outDirInit = outDirState
    /\ mainPc = "create_dir"
    /\ remove = << >>
    /\ replace = << >>
    /\ handles = 0
    /\ pc = [t \in Threads |-> "unspawned"]
    /\ rd = [t \in Threads |-> 0]
    /\ lines_total = [t \in Threads |-> 0]
    /\ lines_skipped = [t \in Threads |-> 0]
    /\ writer = [t \in Threads |-> << >>]
    /\ wpos = [t \in Threads |-> 0]
    /\ outOpen = [t \in Threads |-> FALSE]
    /\ finished = [t \in Threads |-> FALSE]
    /\ message = [t \in Threads |-> NoMessage]
    /\ folded = [t \in Threads |-> << >>]

\* the runs with the default directories
InitWith(patternFiles, languageLists, jobs) ==
    InitRun(patternFiles, languageLists, jobs, {<<"raw", "prepro">>})

\* concurrent runs over the sample files
Init == InitWith({PF_Anchored, PF_TwoRules} \cup BadPatternFiles, LanguageLists,
                 SampleJobs)

\* one language, every file up to the bounds, every pattern file that loads
InitOneFile == InitWith(GoodPatternFiles, {SubSeq(DefaultLanguages, 1, 1)}, AllJobs)

\* language lists naming one language more than once ("en,en")
DuplicateLists == {[i \in 1..n |-> DefaultLanguages[1]] : n \in 2..MaxLangs}

\* runs whose language list repeats a language
InitDuplicates == InitRun({PF_Anchored, PF_TwoRules}, DuplicateLists, SampleJobs,
                          {<<"raw", "prepro">>})

\* runs with any choice of directories: different ones, or the input
\* directory also given as the output directory
InitAnyDirs == InitRun({PF_Anchored, PF_TwoRules}, LanguageLists, SampleJobs,
                       {<<"raw", "prepro">>, <<"raw", "raw">>})

\* runs whose pipelines end in each possible way: the input cannot be opened,
\* the output cannot be created, a line cannot be decoded, the input is read
\* to its end; the pattern file loads or is missing
EndingJobs ==
    {Job(NoFile, NoFile), Job(FileOf(SampleKept), LockedFile(Stale)),
     Job(FileOf(SampleBad), NoFile), Job(FileOf(SampleKept), FileOf(Stale))}
InitEndings == InitWith({PF_Anchored, PF_Missing}, LanguageLists, EndingJobs)

(***************************************************************************)
(* main                                                                    *)
(***************************************************************************)

CreateDirAll_Skipped ==
    /\ mainPc = "create_dir"
    /\ mainPc' = "parse"
    /\ UNCHANGED <<config, outDirState, fs, remove, replace, handles, pc, counters,
                   writer, wpos, outOpen, finished, message, folded>>

\* create_dir_all(&output).unwrap()
CreateDirAll ==
    /\ mainPc = "create_dir"
    /\ IF outDirState = "blocked"
       THEN mainPc' = "panicked" /\ UNCHANGED outDirState
       ELSE mainPc' = "parse" /\ outDirState' = "exists"
    /\ UNCHANGED <<config, fs, remove, replace, handles, pc, counters, writer, wpos,
                   outOpen, finished, message, folded>>

ParsePatterns_IgnoresError ==
    /\ mainPc = "parse"
    /\ LET r == parse_patterns(patternFile)
       IN  mainPc' = "spawn" /\ remove' = r.remove /\ replace' = r.replace
    /\ UNCHANGED <<config, outDirState, fs, handles, pc, counters, writer, wpos,
                   outOpen, finished, message, folded>>

\* let Patterns { remove, replace } = parse_patterns(patterns_path).unwrap()
ParsePatterns ==
    /\ mainPc = "parse"
    /\ LET r == parse_patterns(patternFile)
       IN  IF r.outcome = "ok"
           THEN mainPc' = "spawn" /\ remove' = r.remove /\ replace' = r.replace
           ELSE mainPc' = "panicked" /\ UNCHANGED <<remove, replace>>
    /\ UNCHANGED <<config, outDirState, fs, handles, pc, counters, writer, wpos,
                   outOpen, finished, message, folded>>

\* one iteration of `for language in languages`: thread::spawn, handles.push
SpawnThread ==
    /\ mainPc = "spawn"
    /\ handles < Len(languages)
    /\ handles' = handles + 1
    /\ pc' = [pc EXCEPT ![handles + 1] = "open_in"]
    /\ mainPc' = IF handles + 1 = Len(languages) THEN "join" ELSE "spawn"
    /\ UNCHANGED <<config, outDirState, fs, remove, replace, counters, writer, wpos,
                   outOpen, finished, message, folded>>

\* mpbar.join().unwrap() returns once every progress bar is finished; the
\* JoinHandles in handles are dropped unjoined and main returns
MpbarJoin ==
    /\ mainPc = "join"
    /\ \A t \in Threads : finished[t]
    /\ mainPc' = "returned"
    /\ UNCHANGED <<config, outDirState, fs, remove, replace, handles, pc,
                   counters, writer, wpos, outOpen, finished, message, folded>>

(***************************************************************************)
(* The thread of one language.  A panic unwinds the closure: the BufWriter *)
(* (if any) is dropped, which flushes it, and the ProgressBar is dropped,  *)
(* which finishes it.                                                      *)
(***************************************************************************)

OpenInput_CreatesFirst(t) ==
    /\ ProcessAlive
    /\ pc[t] = "open_in"
    /\ IF fs[InPath(t)].exists /\ ~fs[InPath(t)].locked
       THEN pc' = [pc EXCEPT ![t] = "create_out"] /\ UNCHANGED <<finished, fs>>
       ELSE /\ pc' = [pc EXCEPT ![t] = "panicked"]
            /\ finished' = [finished EXCEPT ![t] = TRUE]
            /\ fs' = [fs EXCEPT ![OutPath(t)] =
                        IF @.locked THEN @ ELSE FileOf(<<>>)]
    /\ UNCHANGED <<config, outDirState, mainPc, remove, replace, handles,
                   counters, writer, wpos, outOpen, message, folded>>

\* OpenInput whose panic leaves the progress bar unfinished
OpenInput_BarStaysOpen(t) ==
    /\ ProcessAlive
    /\ pc[t] = "open_in"
    /\ pc' = [pc EXCEPT ![t] =
                IF fs[InPath(t)].exists /\ ~fs[InPath(t)].locked
                THEN "create_out" ELSE "panicked"]
    /\ UNCHANGED <<config, outDirState, fs, mainPc, remove, replace, handles,
                   counters, writer, wpos, outOpen, finished, message, folded>>

\* File::open(&input).expect("Unable to open file")
OpenInput(t) ==
    /\ ProcessAlive
    /\ pc[t] = "open_in"
    /\ IF fs[InPath(t)].exists /\ ~fs[InPath(t)].locked
       THEN pc' = [pc EXCEPT ![t] = "create_out"] /\ UNCHANGED finished
       ELSE pc' = [pc EXCEPT ![t] = "panicked"]
            /\ finished' = [finished EXCEPT ![t] = TRUE]
    /\ UNCHANGED <<config, outDirState, fs, mainPc, remove, replace, handles,
                   counters, writer, wpos, outOpen, message, folded>>

\* File::create(&output).expect("Unable to open file"): creates or truncates
CreateOutput(t) ==
    /\ ProcessAlive
    /\ pc[t] = "create_out"
    /\ IF outDirState = "exists" /\ ~fs[OutPath(t)].locked
       THEN /\ fs' = [fs EXCEPT ![OutPath(t)] = FileOf(<<>>)]
            /\ outOpen' = [outOpen EXCEPT ![t] = TRUE]
            /\ wpos' = [wpos EXCEPT ![t] = 0]
            /\ pc' = [pc EXCEPT ![t] = "loop"]
            /\ UNCHANGED finished
       ELSE /\ pc' = [pc EXCEPT ![t] = "panicked"]
            /\ finished' = [finished EXCEPT ![t] = TRUE]
            /\ UNCHANGED <<fs, outOpen, wpos>>
    /\ UNCHANGED <<config, outDirState, mainPc, remove, replace, handles,
                   counters, writer, wpos, message, folded>>

ProcessLine_DrainsRules(t) ==
    /\ ProcessAlive
    /\ pc[t] = "loop"
    /\ rd[t] < Len(fs[InPath(t)].lines)
    /\ LET raw == fs[InPath(t)].lines[rd[t] + 1]
           out == fs[OutPath(t)]
       IN  /\ rd' = [rd EXCEPT ![t] = @ + 1]
           /\ lines_total' = [lines_total EXCEPT ![t] = @ + 1]
           /\ IF ~Decodable(raw)
              THEN \* line.unwrap() panics; unwinding flushes the writer
                   /\ fs' = [fs EXCEPT ![OutPath(t)] =
                               FileOf(WriteAt(out.lines, wpos[t], writer[t]))]
                   /\ wpos' = [wpos EXCEPT ![t] = @ + Len(writer[t])]
                   /\ writer' = [writer EXCEPT ![t] = <<>>]
                   /\ pc' = [pc EXCEPT ![t] = "panicked"]
                   /\ finished' = [finished EXCEPT ![t] = TRUE]
                   /\ UNCHANGED <<lines_skipped, folded>>
              ELSE LET r == LineBody(remove, replace, raw)
                       w == BufWrite(writer[t], << >>, r.value)
                   IN  /\ folded' = [folded EXCEPT ![t] = @ \o r.folded]
                       /\ IF r.kept
                          THEN /\ writer' = [writer EXCEPT ![t] = w.buf]
                               /\ fs' = [fs EXCEPT ![OutPath(t)] =
                                           FileOf(WriteAt(out.lines, wpos[t], w.file))]
                               /\ wpos' = [wpos EXCEPT ![t] = @ + Len(w.file)]
                               /\ UNCHANGED lines_skipped
                          ELSE /\ lines_skipped' = [lines_skipped EXCEPT ![t] = @ + 1]
                               /\ UNCHANGED <<writer, fs, wpos>>
                       /\ UNCHANGED <<pc, finished>>
    /\ replace' = << >>
    /\ UNCHANGED <<config, outDirState, mainPc, remove, handles, outOpen, message>>

\* one iteration of `for line in reader.lines()`
ProcessLine(t) ==
    /\ ProcessAlive
    /\ pc[t] = "loop"
    /\ rd[t] < Len(fs[InPath(t)].lines)
    /\ LET raw == fs[InPath(t)].lines[rd[t] + 1]
           out == fs[OutPath(t)]
       IN  /\ rd' = [rd EXCEPT ![t] = @ + 1]
           /\ lines_total' = [lines_total EXCEPT ![t] = @ + 1]
           /\ IF ~Decodable(raw)
              THEN \* line.unwrap() panics; unwinding flushes the writer
                   /\ fs' = [fs EXCEPT ![OutPath(t)] =
                               FileOf(WriteAt(out.lines, wpos[t], writer[t]))]
                   /\ wpos' = [wpos EXCEPT ![t] = @ + Len(writer[t])]
                   /\ writer' = [writer EXCEPT ![t] = <<>>]
                   /\ pc' = [pc EXCEPT ![t] = "panicked"]
                   /\ finished' = [finished EXCEPT ![t] = TRUE]
                   /\ UNCHANGED <<lines_skipped, folded>>
              ELSE LET r == LineBody(remove, replace, raw)
                       w == BufWrite(writer[t], << >>, r.value)
                   IN  /\ folded' = [folded EXCEPT ![t] = @ \o r.folded]
                       /\ IF r.kept
                          THEN /\ writer' = [writer EXCEPT ![t] = w.buf]
                               /\ fs' = [fs EXCEPT ![OutPath(t)] =
                                           FileOf(WriteAt(out.lines, wpos[t], w.file))]
                               /\ wpos' = [wpos EXCEPT ![t] = @ + Len(w.file)]
                               /\ UNCHANGED lines_skipped
                          ELSE /\ lines_skipped' = [lines_skipped EXCEPT ![t] = @ + 1]
                               /\ UNCHANGED <<writer, fs, wpos>>
                       /\ UNCHANGED <<pc, finished>>
    /\ UNCHANGED <<config, outDirState, mainPc, remove, replace, handles,
                   outOpen, message>>

\* reader.lines() is exhausted: lines_remaining, pbar.finish_with_message
FinishBar(t) ==
    /\ ProcessAlive
    /\ pc[t] = "loop"
    /\ rd[t] >= Len(fs[InPath(t)].lines)
    /\ LET remaining == lines_remaining(lines_total[t], lines_skipped[t])
       IN  message' = [message EXCEPT ![t] =
                         [sent |-> TRUE, lines_remaining |-> remaining,
                          lines_total |-> lines_total[t],
                          ratio |-> Ratio(remaining, lines_total[t])]]
    /\ finished' = [finished EXCEPT ![t] = TRUE]
    /\ pc' = [pc EXCEPT ![t] = "drop_writer"]
    /\ UNCHANGED <<config, outDirState, fs, mainPc, remove, replace, handles,
                   counters, writer, wpos, outOpen, folded>>

\* the closure ends: writer goes out of scope and BufWriter::drop flushes
DropWriter(t) ==
    /\ ProcessAlive
    /\ pc[t] = "drop_writer"
    /\ fs' = [fs EXCEPT ![OutPath(t)] =
                FileOf(WriteAt(fs[OutPath(t)].lines, wpos[t], writer[t]))]
    /\ wpos' = [wpos EXCEPT ![t] = @ + Len(writer[t])]
    /\ writer' = [writer EXCEPT ![t] = <<>>]
    /\ pc' = [pc EXCEPT ![t] = "done"]
    /\ UNCHANGED <<config, outDirState, mainPc, remove, replace, handles,
                   counters, outOpen, finished, message, folded>>

Next ==
    \/ CreateDirAll
    \/ ParsePatterns
    \/ SpawnThread
    \/ MpbarJoin
    \/ \E t \in Threads : OpenInput(t)
    \/ \E t \in Threads : CreateOutput(t)
    \/ \E t \in Threads : ProcessLine(t)
    \/ \E t \in Threads : FinishBar(t)
    \/ \E t \in Threads : DropWriter(t)

Spec == Init /\ [][Next]_vars

SpecOneFile == InitOneFile /\ [][Next]_vars

SpecDuplicates == InitDuplicates /\ [][Next]_vars

SpecAnyDirs == InitAnyDirs /\ [][Next]_vars

\* the runs in which main and the spawned threads keep being
\* scheduled: a step that can be taken is eventually taken
SpecFair == InitEndings /\ [][Next]_vars /\ WF_vars(Next)

(***************************************************************************)
(* What the claims speak of.                                               *)
(***************************************************************************)

\* the lines of thread t's input file
InputLines(t) == fsInit[InPath(t)].lines

\* the lines thread t has read so far that are text
DecodedSoFar(t) == SelectSeq(SubSeq(InputLines(t), 1, rd[t]), Decodable)

\* some removal pattern matches at some position of the line
MatchesSomewhere(line) ==
    \E k \in 1..Len(remove) : \E i \in 1..(Len(line) + 1) : MatchAt(remove[k], line, i)

NoMatchAnywhere(line) == ~MatchesSomewhere(line)

\* the lines read so far that no removal pattern matches, in input order
KeptSoFar(t) == SelectSeq(DecodedSoFar(t), NoMatchAnywhere)

\* the lines read so far that some removal pattern matches
DroppedSoFar(t) == SelectSeq(DecodedSoFar(t), MatchesSomewhere)

\* the lines thread t has handed to its writer: flushed ones, then buffered
Written(t) == IF outOpen[t] THEN fs[OutPath(t)].lines \o writer[t] ELSE << >>

\* rule k of the configuration applied to a line, as the loop applies it
RuleK(k, line) == RegexReplace(replace[k].regex, line, replace[k].replacement)

\* rule k applied to every non-overlapping match
RuleKAll(k, line) == RegexReplaceAll(replace[k].regex, line, replace[k].replacement)

RECURSIVE AllRulesAll(_, _)
AllRulesAll(k, line) ==
    IF k = 0 THEN line ELSE RuleKAll(k, AllRulesAll(k - 1, line))

\* C1: every written line is its kept line with every non-overlapping match
\* of every rule replaced (rule x -> y turns xxx into yyy).
C1_EveryMatchReplaced ==
    \A t \in Threads :
        /\ Len(Written(t)) = Len(KeptSoFar(t))
        /\ \A i \in 1..Len(Written(t)) :
             Written(t)[i] = AllRulesAll(Len(replace), KeptSoFar(t)[i])

\* C2: the substitution fold has run on exactly the original lines for which
\* the removal test on the original line was false, and on no dropped line.
C2_FilterBeforeSubstitute ==
    \A t \in Threads :
        /\ folded[t] = KeptSoFar(t)
        /\ \A i \in 1..Len(folded[t]) : ~MatchesSomewhere(folded[t][i])
        /\ lines_skipped[t] = Len(DroppedSoFar(t))

\* a line was dropped that the rules would have changed, another was folded,
\* and a folded line matches a removal pattern once substituted
C2_Witness ==
    \E t \in Threads :
        /\ pc[t] = "done"
        /\ \E i \in 1..Len(DroppedSoFar(t)) :
             FoldReplace(replace, DroppedSoFar(t)[i]) # DroppedSoFar(t)[i]
        /\ \E i \in 1..Len(folded[t]) :
             MatchesSomewhere(FoldReplace(replace, folded[t][i]))

\* C3: with rules [R1, .., Rn] in configuration order every written line is
\* Rn(..R2(R1(line))) of its kept line.
C3_RulesInOrder ==
    \A t \in Threads :
        \A i \in 1..Len(Written(t)) :
            i <= Len(KeptSoFar(t)) =>
                LET line == KeptSoFar(t)[i]
                IN  Written(t)[i] =
                        CASE Len(replace) = 0 -> line
                          [] Len(replace) = 1 -> RuleK(1, line)
                          [] Len(replace) = 2 -> RuleK(2, RuleK(1, line))

\* a line was written on which the two rules do not commute, and on which
\* applying the second rule to the original line gives something else
C3_Witness ==
    \E t \in Threads :
        /\ Len(replace) = 2
        /\ \E i \in 1..Len(Written(t)) :
             LET line == KeptSoFar(t)[i]
             IN  /\ Written(t)[i] = RuleK(2, RuleK(1, line))
                 /\ RuleK(2, RuleK(1, line)) # RuleK(1, RuleK(2, line))
                 /\ RuleK(2, RuleK(1, line)) # RuleK(2, line)

\* C4: a line is dropped iff some removal pattern matches somewhere in it:
\* each matching line read adds one to lines_skipped and nothing to the
\* output, each other line adds exactly one output line.
C4_DroppedIffRemovalMatches ==
    \A t \in Threads :
        /\ lines_skipped[t] = Len(DroppedSoFar(t))
        /\ Len(Written(t)) = Len(KeptSoFar(t))
        /\ Len(Written(t)) + lines_skipped[t] = Len(DecodedSoFar(t))

\* a file is done of which one line was dropped for a match that does not
\* start the line and matches only one of two patterns, and one was kept
C4_Witness ==
    \E t \in Threads :
        /\ pc[t] = "done"
        /\ Len(Written(t)) = 1
        /\ Len(remove) = 2
        /\ \E i \in 1..Len(DroppedSoFar(t)) :
             LET line == DroppedSoFar(t)[i]
             IN  /\ \E k \in 1..Len(remove) : ~RegexIsMatch(remove[k], line)
                 /\ \A k \in 1..Len(remove) : ~MatchAt(remove[k], line, 1)

\* C5: at every point the lines written so far are the transformed kept
\* lines among the lines read so far, in input order, one per kept line.
C5_OutputIsKeptLinesInOrder ==
    \A t \in Threads :
        Written(t) = [i \in 1..Len(KeptSoFar(t)) |->
                        FoldReplace(replace, KeptSoFar(t)[i])]

\* two different lines written, the first flushed, the second still buffered
C5_Witness ==
    \E t \in Threads :
        /\ pc[t] = "loop"
        /\ Len(fs[OutPath(t)].lines) = 1
        /\ Len(writer[t]) = 1
        /\ fs[OutPath(t)].lines # writer[t]

\* the lines some removal pattern matches, of thread t's whole input
DroppedOfInput(t) == SelectSeq(InputLines(t), MatchesSomewhere)

\* what thread t's output file holds once its whole input went through
ExpectedOutput(t) ==
    LET kept == SelectSeq(InputLines(t), NoMatchAnywhere)
    IN  [i \in 1..Len(kept) |-> FoldReplace(replace, kept[i])]

\* C6: a pipeline that finished an input of T lines, S of them matching a
\* removal pattern, reports total = T and retained = T - S, having counted
\* skipped = S; with T = 0 it finishes (ratio NaN) and does not panic.
C6_StatisticsCorrect ==
    \A t \in Threads :
        LET T == Len(InputLines(t))
        IN  /\ message[t].sent =>
                 /\ message[t].lines_total = T
                 /\ lines_skipped[t] = Len(DroppedOfInput(t))
                 /\ message[t].lines_remaining = T - Len(DroppedOfInput(t))
                 /\ message[t].ratio.nan = (T = 0)
            /\ (outOpen[t] /\ T = 0) => pc[t] # "panicked"

\* one pipeline finished an empty input, another one an input of which some
\* but not all lines were dropped
C6_Witness ==
    \E t, u \in Threads :
        /\ message[t].sent /\ Len(InputLines(t)) = 0 /\ pc[t] = "done"
        /\ message[u].sent
        /\ Len(DroppedOfInput(u)) > 0
        /\ Len(DroppedOfInput(u)) < Len(InputLines(u))

\* C7: once main has returned every pipeline has run to its end: what each
\* finished language's output file holds is every kept line of its input
\* (a thread that had terminated would have flushed them all).
C7_MainReturnsAfterThreads ==
    mainPc = "returned" =>
        \A t \in Threads :
            message[t].sent => fs[OutPath(t)].lines = ExpectedOutput(t)

\* thread t's own files are in order: input readable and text, output writable
Healthy(t) ==
    /\ fsInit[InPath(t)].exists
    /\ ~fsInit[InPath(t)].locked
    /\ \A i \in 1..Len(InputLines(t)) : Decodable(InputLines(t)[i])
    /\ ~fsInit[OutPath(t)].locked

\* C8: in a finished run in which one pipeline failed, every sibling whose
\* own files are in order has produced its correct output and statistics.
C8_SiblingsCompleteDespiteFailure ==
    (mainPc = "returned" /\ \E t \in Threads : pc[t] = "panicked") =>
        \A u \in Threads :
            Healthy(u) =>
                /\ fs[OutPath(u)].lines = ExpectedOutput(u)
                /\ message[u].lines_total = Len(InputLines(u))

\* C9: the run ends successfully (main returns, exit status 0) only if no
\* pipeline failed.
C9_SuccessOnlyIfAllSucceeded ==
    mainPc = "returned" => \A t \in Threads : pc[t] # "panicked"

\* C10: a pipeline whose input cannot be opened never opens its output: the
\* output file is as it was when the run started and nothing is written.
C10_NoOutputWithoutInput ==
    \A t \in Threads :
        (~fsInit[InPath(t)].exists \/ fsInit[InPath(t)].locked) =>
            /\ ~outOpen[t]
            /\ writer[t] = << >>
            /\ fs[OutPath(t)] = fsInit[OutPath(t)]

\* a pipeline has failed on a missing input and its stale output is intact
C10_Witness ==
    \E t \in Threads :
        /\ pc[t] = "panicked"
        /\ ~fsInit[InPath(t)].exists
        /\ fsInit[OutPath(t)].lines # << >>
        /\ fs[OutPath(t)].lines = fsInit[OutPath(t)].lines

\* thread t's reader has yielded a line that is not text
DecodeFailed(t) == rd[t] > 0 /\ ~Decodable(InputLines(t)[rd[t]])

\* C11: a pipeline that met an undecodable line ends with an error result,
\* not a panic, and the finished run holds no output file it left behind.
C11_DecodeErrorIsExplicit ==
    mainPc = "returned" =>
        \A t \in Threads :
            DecodeFailed(t) =>
                /\ pc[t] # "panicked"
                /\ ~(outOpen[t] /\ fs[OutPath(t)].exists)

\* the pattern file does not load: it is missing, malformed, or one of its
\* removal or substitution patterns does not compile
PatternsFail == parse_patterns(patternFile).outcome # "ok"

\* C12: when the pattern file does not load the run aborts before any file
\* processing: main never gets past parsing, no thread is spawned, no output
\* is opened and every file is as it was when the run started.
C12_BadPatternsAbortBeforeProcessing ==
    PatternsFail =>
        /\ mainPc \in {"create_dir", "parse", "panicked"}
        /\ handles = 0
        /\ \A t \in Threads : pc[t] = "unspawned" /\ ~outOpen[t]
        /\ fs = fsInit

\* main has panicked on a pattern that does not compile, and the stale
\* output file of a language whose input exists is untouched
C12_Witness ==
    /\ mainPc = "panicked"
    /\ parse_patterns(patternFile).outcome = "panic"
    /\ \E t \in Threads :
         /\ fsInit[InPath(t)].exists
         /\ fs[OutPath(t)].lines = Stale

\* C13: once constructed, the removal patterns and the ordered substitution
\* rules every pipeline sees are those parse_patterns built from the pattern
\* file; no step of main or of a pipeline changes them.
C13_PatternsImmutable ==
    mainPc \in {"spawn", "join", "returned"} =>
        /\ remove = parse_patterns(patternFile).remove
        /\ replace = parse_patterns(patternFile).replace

\* one pipeline is done and another is in the middle of its file, both
\* having matched and substituted with the shared patterns
C13_Witness ==
    \E t, u \in Threads :
        /\ pc[t] = "done" /\ lines_skipped[t] > 0 /\ folded[t] # << >>
        /\ pc[u] = "loop" /\ rd[u] > 0 /\ folded[u] # << >>
        /\ remove # << >> /\ replace # << >>

\* C14: the output directory exists, create_dir_all having returned Ok,
\* whenever a pipeline has started, and so whenever one has created or
\* written its output file.
C14_OutputDirBeforePipelines ==
    \A t \in Threads :
        (pc[t] # "unspawned" \/ outOpen[t] \/ fs[OutPath(t)] # fsInit[OutPath(t)]) =>
            /\ outDirState = "exists"
            /\ mainPc \notin {"create_dir", "panicked"}

\* a pipeline has written lines to a file in a directory that did not exist
\* when the run started
C14_Witness ==
    \E t \in Threads :
        /\ outDirInit = "absent"
        /\ outOpen[t]
        /\ fs[OutPath(t)].lines # << >>

\* the lines of thread t's input before its first undecodable line
RECURSIVE TextPrefix(_)
TextPrefix(ls) ==
    IF ls = << >> \/ ~Decodable(Head(ls)) THEN << >>
    ELSE <<Head(ls)>> \o TextPrefix(Tail(ls))

\* what a run leaves at thread t's output path, from its own files and the
\* patterns alone: untouched when the input or the output cannot be opened,
\* otherwise the folded kept lines up to the first undecodable line
FinalOutput(t) ==
    IF ~fsInit[InPath(t)].exists \/ fsInit[InPath(t)].locked
       \/ fsInit[OutPath(t)].locked
    THEN fsInit[OutPath(t)]
    ELSE LET kept == SelectSeq(TextPrefix(InputLines(t)), NoMatchAnywhere)
         IN  FileOf([i \in 1..Len(kept) |-> FoldReplace(replace, kept[i])])

\* C15: whatever the interleaving, a finished run leaves each language's
\* output file and statistics as its own input and the patterns determine.
C15_OutcomeIndependentOfInterleaving ==
    mainPc = "returned" =>
        \A t \in Threads :
            /\ fs[OutPath(t)] = FinalOutput(t)
            /\ message[t].sent = Healthy(t)
            /\ message[t].sent =>
                 /\ message[t].lines_total = Len(InputLines(t))
                 /\ message[t].lines_remaining =
                        Len(InputLines(t)) - Len(DroppedOfInput(t))

\* thread t has its output file open for writing
Writing(t) == outOpen[t] /\ pc[t] \in {"loop", "drop_writer"}

\* C16: whatever the language list, no two running pipelines have the same
\* output path open for writing.
C16_OneWriterPerOutput ==
    \A t, u \in Threads :
        (t # u /\ OutPath(t) = OutPath(u)) => ~(Writing(t) /\ Writing(u))

\* C17: whatever the directories, once the run has returned every input
\* file holds the lines it held when the run started.
C17_InputUnchanged ==
    mainPc = "returned" =>
        \A t \in Threads : fs[InPath(t)].lines = fsInit[InPath(t)].lines

\* thread t has been spawned
Spawned(t) == t <= handles

\* the pipeline of thread t is over: it has sent its completion notification
\* or it has failed
PipelineOver(t) ==
    /\ t \in Threads
    /\ \/ message[t].sent
       \/ pc[t] = "panicked"

\* the run is over: main has returned or has failed
RunOver == mainPc \in {"returned", "panicked"}

\* C18: for finite input files every scheduled run terminates: every spawned
\* pipeline eventually finishes or fails, and main eventually leaves its wait
\* (or has failed before it), also when pipelines fail before their completion
\* notification.
C18_RunTerminates ==
    /\ <>RunOver
    /\ \A t \in 1..MaxLangs : [](Spawned(t) => <>PipelineOver(t))

\* main has returned from its wait although a pipeline failed before its
\* completion notification
C18_Witness ==
    /\ mainPc = "returned"
    /\ \E t \in Threads : pc[t] = "panicked" /\ ~message[t].sent

====
